---- MODULE Spec2Model ----
(***************************************************************************)
(* Directory-level dependency analysis of ts-module-isolation:             *)
(* ModuleParser feeding GraphAnalyzer (buildGraph, findFeedbackArcs,       *)
(* detectViolations, isAcyclic), OrderOrder.analyze and the command-line   *)
(* action with its exit code.                                              *)
(*                                                                         *)
(* A logical module name is the sequence of its path segments:             *)
(* "ui/components/Button" is <<"ui", "components", "Button">>.  A prefix   *)
(* is a path of the same shape.  Maps and Sets of the source iterate in    *)
(* insertion order, so they are sequences here.  A dependency object that  *)
(* the analyzer pushes to an output list is a reference to the object in   *)
(* the module record that owns it: [module |-> i, index |-> j] stands for  *)
(* modules[i].dependencies[j].                                             *)
(***************************************************************************)
EXTENDS Integers, Sequences, FiniteSets, TLC

VARIABLES pc, modules, graph, feedbackArcs, violations, options, output, exitCode

vars == <<pc, modules, graph, feedbackArcs, violations, options, output, exitCode>>

(* ------------------------------ bounds --------------------------------- *)

\* one run of analyze over a tree with one file per logical name: files
\* parsed, and import statements over all of them
MaxModules == 3
MaxDeps == 4
\* a run over several directories, or over a tree holding x.ts beside x.js:
\* two module records may share a logical name
MultiMaxModules == 4
MultiMaxDeps == 2
\* a whole command-line run
CliMaxModules == 2
CliMaxDeps == 2
\* files and import statements parsed after the two files of PairInit
MoreModules == 2
MoreDeps == 2

\* logical names of the files of the analysed tree
DirNames == {<<"ui", "components", "Button">>, <<"core", "y">>, <<"globals">>}
RootNames == {<<"ui">>, <<"ui", "x">>, <<"core", "y">>}
PairNames == {<<"ui", "x">>, <<"core", "y">>, <<"lib", "z">>, <<"app", "w">>}

Range(s) == {s[i] : i \in 1..Len(s)}

(* ------------------------------ utils.ts ------------------------------- *)

\* path.dirname on a relative, normalised path; the replace of backslashes by
\* slashes that follows it changes nothing in a path held as its segments
dirname(p) == IF Len(p) > 1 THEN SubSeq(p, 1, Len(p) - 1) ELSE <<".">>

extractModulePrefix(modulePath) ==
  LET dir == dirname(modulePath)
  IN  IF dir = <<".">> \/ dir = <<>> \/ dir = <<"/">> THEN modulePath ELSE dir

(* ------------------------------ parser.ts ------------------------------ *)

NoGraph == [modules |-> <<>>, prefixDependencies |-> <<>>]
NoOptions == [json |-> FALSE, dot |-> FALSE, output |-> FALSE, verbose |-> FALSE]
NoOutput == [prefixCount |-> -1, violationCount |-> -1, feedbackArcCount |-> -1,
             isAcyclic |-> FALSE, dot |-> FALSE, file |-> FALSE]

TotalDeps(ms) ==
  LET RECURSIVE Sum(_)
      Sum(n) == IF n = 0 THEN 0 ELSE Sum(n - 1) + Len(ms[n].dependencies)
  IN  Sum(Len(ms))

\* parseFile: one more module record; its dependencies are filled in by
\* extractDependencies, one import statement at a time
parseFile(names, limit) ==
  /\ pc = "parse"
  /\ Len(modules) < limit
  /\ \E name \in names :
       modules' = Append(modules,
                         [name |-> name, prefix |-> extractModulePrefix(name),
                          dependencies |-> <<>>])
  /\ UNCHANGED <<pc, graph, feedbackArcs, violations, options, output, exitCode>>

\* extractDependencies: the next local import of the file being parsed; every
\* dependency of a file has the file's own name as `from`, and one import
\* statement per line
extractDependencies(names, limit) ==
  /\ pc = "parse"
  /\ Len(modules) > 0
  /\ TotalDeps(modules) < limit
  /\ \E to \in names :
       LET m == modules[Len(modules)]
           dep == [from |-> m.name, to |-> to, line |-> Len(m.dependencies) + 1]
       IN  modules' = [modules EXCEPT ![Len(modules)].dependencies = Append(@, dep)]
  /\ UNCHANGED <<pc, graph, feedbackArcs, violations, options, output, exitCode>>

(* ------------------------------ graph.ts ------------------------------- *)

\* Map.set: a new key goes last, an existing key keeps its place
MapSet(map, k, v) ==
  IF \E i \in 1..Len(map) : map[i].key = k
  THEN [i \in 1..Len(map) |-> IF map[i].key = k THEN [key |-> k, value |-> v] ELSE map[i]]
  ELSE Append(map, [key |-> k, value |-> v])

MapHas(map, k) == \E i \in 1..Len(map) : map[i].key = k
MapGet(map, k) == map[CHOOSE i \in 1..Len(map) : map[i].key = k].value
MapKeys(map) == [i \in 1..Len(map) |-> map[i].key]

\* Set.add on an insertion-ordered set
SetAdd(s, x) == IF x \in Range(s) THEN s ELSE Append(s, x)

\* the dependency objects of all modules, in module order then list order
AllDeps(ms) ==
  LET RECURSIVE Upto(_)
      Upto(n) == IF n = 0 THEN <<>>
                 ELSE Upto(n - 1) \o [j \in 1..Len(ms[n].dependencies) |->
                                        [module |-> n, index |-> j]]
  IN  Upto(Len(ms))

Dep(ms, ref) == ms[ref.module].dependencies[ref.index]

\* AddEdge without the test fromPrefix !== toPrefix
AddEdgeNoCheck(pd, fromPrefix, toPrefix) ==
  LET pd1 == IF MapHas(pd, fromPrefix) THEN pd ELSE MapSet(pd, fromPrefix, <<>>)
  IN  MapSet(pd1, fromPrefix, SetAdd(MapGet(pd1, fromPrefix), toPrefix))

\* body of the inner loop of buildGraph
AddEdge(pd, fromPrefix, toPrefix) ==
  IF fromPrefix # toPrefix
  THEN LET pd1 == IF MapHas(pd, fromPrefix) THEN pd ELSE MapSet(pd, fromPrefix, <<>>)
       IN  MapSet(pd1, fromPrefix, SetAdd(MapGet(pd1, fromPrefix), toPrefix))
  ELSE pd

buildGraph(ms) ==
  LET RECURSIVE ModuleMap(_)
      ModuleMap(n) == IF n = 0 THEN <<>> ELSE MapSet(ModuleMap(n - 1), ms[n].name, n)
      deps == AllDeps(ms)
      RECURSIVE Prefixes(_)
      Prefixes(n) ==
        IF n = 0 THEN <<>>
        ELSE AddEdge(Prefixes(n - 1),
                     extractModulePrefix(Dep(ms, deps[n]).from),
                     extractModulePrefix(Dep(ms, deps[n]).to))
  IN  [modules |-> ModuleMap(Len(ms)), prefixDependencies |-> Prefixes(Len(deps))]

\* graph.prefixDependencies.get(p) || new Set()
Successors(g, p) ==
  IF MapHas(g.prefixDependencies, p) THEN MapGet(g.prefixDependencies, p) ELSE <<>>

\* findViolations without the test of the module's own prefix
findViolationsAnySource(fromPrefix, toPrefix, g, ms) ==
  LET RECURSIVE Scan(_)
      Scan(n) ==
        IF n = 0 THEN <<>>
        ELSE LET i == g.modules[n].value
                 hits == SelectSeq([j \in 1..Len(ms[i].dependencies) |->
                                      [module |-> i, index |-> j]],
                                   LAMBDA r : extractModulePrefix(Dep(ms, r).to) = toPrefix)
             IN  Scan(n - 1) \o hits
  IN  Scan(Len(g.modules))

\* findViolations: scan of graph.modules for the [from, to] prefix pair
findViolations(fromPrefix, toPrefix, g, ms) ==
  LET RECURSIVE Scan(_)
      Scan(n) ==
        IF n = 0 THEN <<>>
        ELSE LET i == g.modules[n].value
                 hits == IF extractModulePrefix(ms[i].name) = fromPrefix
                         THEN SelectSeq([j \in 1..Len(ms[i].dependencies) |->
                                           [module |-> i, index |-> j]],
                                        LAMBDA r : extractModulePrefix(Dep(ms, r).to) = toPrefix)
                         ELSE <<>>
             IN  Scan(n - 1) \o hits
  IN  Scan(Len(g.modules))

RECURSIVE dfsForCycles(_, _, _, _)
RECURSIVE dfsForCyclesLoop(_, _, _, _, _)

\* the for loop of dfsForCycles without the test of visited
dfsForCyclesLoopNoVisitedTest(current, g, ms, st, j) ==
  LET dependencies == Successors(g, current)
  IN  IF j > Len(dependencies) THEN st
      ELSE LET neighbor == dependencies[j]
               st1 == IF neighbor \notin st.recursionStack
                      THEN dfsForCycles(neighbor, g, ms, st)
                      ELSE [st EXCEPT !.feedbackArcs =
                              Append(@, [from |-> current, to |-> neighbor,
                                         violations |-> findViolations(current, neighbor, g, ms)])]
           IN  dfsForCyclesLoop(current, g, ms, st1, j + 1)

\* the for loop of dfsForCycles from the j-th successor of current on;
\* st = [visited, recursionStack, feedbackArcs, calls], where calls lists the
\* prefixes in the order dfsForCycles was called on them
dfsForCyclesLoop(current, g, ms, st, j) ==
  LET dependencies == Successors(g, current)
  IN  IF j > Len(dependencies) THEN st
      ELSE LET neighbor == dependencies[j]
               st1 == IF neighbor \notin st.visited
                      THEN dfsForCycles(neighbor, g, ms, st)
                      ELSE IF neighbor \in st.recursionStack
                      THEN [st EXCEPT !.feedbackArcs =
                              Append(@, [from |-> current, to |-> neighbor,
                                         violations |-> findViolations(current, neighbor, g, ms)])]
                      ELSE st
           IN  dfsForCyclesLoop(current, g, ms, st1, j + 1)

\* dfsForCycles without recursionStack.add(current)
dfsForCyclesNoStackAdd(current, g, ms, st) ==
  LET entered == [st EXCEPT !.visited = @ \cup {current},
                            !.calls = Append(@, current)]
      left == dfsForCyclesLoop(current, g, ms, entered, 1)
  IN  [left EXCEPT !.recursionStack = @ \ {current}]

dfsForCycles(current, g, ms, st) ==
  LET entered == [st EXCEPT !.visited = @ \cup {current},
                            !.recursionStack = @ \cup {current},
                            !.calls = Append(@, current)]
      left == dfsForCyclesLoop(current, g, ms, entered, 1)
  IN  [left EXCEPT !.recursionStack = @ \ {current}]

\* findFeedbackArcs with the sets it works on, as they are when it returns
findFeedbackArcsRun(g, ms) ==
  LET prefixes == MapKeys(g.prefixDependencies)
      RECURSIVE Roots(_)
      Roots(n) ==
        IF n = 0 THEN [visited |-> {}, recursionStack |-> {}, feedbackArcs |-> <<>>,
                       calls |-> <<>>]
        ELSE LET st == Roots(n - 1)
             IN  IF prefixes[n] \notin st.visited
                 THEN dfsForCycles(prefixes[n], g, ms, st)
                 ELSE st
  IN  Roots(Len(prefixes))

findFeedbackArcs(g, ms) == findFeedbackArcsRun(g, ms).feedbackArcs

RECURSIVE hasCycleDFS(_, _, _)
RECURSIVE hasCycleDFSLoop(_, _, _, _)

\* the for loop of hasCycleDFS with the result of the recursive call dropped
hasCycleDFSLoopDropsResult(current, g, st, j) ==
  LET dependencies == Successors(g, current)
  IN  IF j > Len(dependencies)
      THEN [st EXCEPT !.recursionStack = @ \ {current}, !.found = FALSE]
      ELSE LET neighbor == dependencies[j]
           IN  IF neighbor \notin st.visited
               THEN hasCycleDFSLoop(current, g, hasCycleDFS(neighbor, g, st), j + 1)
               ELSE IF neighbor \in st.recursionStack
               THEN [st EXCEPT !.found = TRUE]
               ELSE hasCycleDFSLoop(current, g, st, j + 1)

\* the for loop of hasCycleDFS; st = [visited, recursionStack, found], where
\* found is the value returned
hasCycleDFSLoop(current, g, st, j) ==
  LET dependencies == Successors(g, current)
  IN  IF j > Len(dependencies)
      THEN [st EXCEPT !.recursionStack = @ \ {current}, !.found = FALSE]
      ELSE LET neighbor == dependencies[j]
           IN  IF neighbor \notin st.visited
               THEN LET sub == hasCycleDFS(neighbor, g, st)
                    IN  IF sub.found THEN sub
                        ELSE hasCycleDFSLoop(current, g, sub, j + 1)
               ELSE IF neighbor \in st.recursionStack
               THEN [st EXCEPT !.found = TRUE]
               ELSE hasCycleDFSLoop(current, g, st, j + 1)

hasCycleDFS(current, g, st) ==
  hasCycleDFSLoop(current, g,
                  [st EXCEPT !.visited = @ \cup {current},
                             !.recursionStack = @ \cup {current}], 1)

isAcyclic(g) ==
  LET prefixes == MapKeys(g.prefixDependencies)
      RECURSIVE Roots(_)
      Roots(n) ==
        IF n = 0 THEN [visited |-> {}, recursionStack |-> {}, found |-> FALSE]
        ELSE LET st == Roots(n - 1)
             IN  IF st.found THEN st
                 ELSE IF prefixes[n] \notin st.visited
                 THEN hasCycleDFS(prefixes[n], g, st)
                 ELSE st
  IN  ~Roots(Len(prefixes)).found

RECURSIVE fillOrder(_, _, _)
RECURSIVE fillOrderLoop(_, _, _, _)

\* st = [visited, stack]
fillOrderLoop(vertex, g, st, j) ==
  LET dependencies == Successors(g, vertex)
  IN  IF j > Len(dependencies) THEN st
      ELSE LET neighbor == dependencies[j]
               st1 == IF neighbor \notin st.visited THEN fillOrder(neighbor, g, st) ELSE st
           IN  fillOrderLoop(vertex, g, st1, j + 1)

fillOrder(vertex, g, st) ==
  LET left == fillOrderLoop(vertex, g, [st EXCEPT !.visited = @ \cup {vertex}], 1)
  IN  [left EXCEPT !.stack = Append(@, vertex)]

\* the edges [from, to] of the prefix graph in iteration order
EdgeSeq(g) ==
  LET pd == g.prefixDependencies
      RECURSIVE Upto(_)
      Upto(n) == IF n = 0 THEN <<>>
                 ELSE Upto(n - 1) \o [j \in 1..Len(pd[n].value) |->
                                        [from |-> pd[n].key, to |-> pd[n].value[j]]]
  IN  Upto(Len(pd))

\* transposeGraph that returns the edges as they are
transposeGraphNotReversed(g) == g.prefixDependencies

transposeGraph(g) ==
  LET edges == EdgeSeq(g)
      RECURSIVE Upto(_)
      Upto(n) ==
        IF n = 0 THEN <<>>
        ELSE LET t == Upto(n - 1)
                 t1 == IF MapHas(t, edges[n].to) THEN t ELSE MapSet(t, edges[n].to, <<>>)
             IN  MapSet(t1, edges[n].to, SetAdd(MapGet(t1, edges[n].to), edges[n].from))
  IN  Upto(Len(edges))

RECURSIVE dfsComponent(_, _, _)
RECURSIVE dfsComponentLoop(_, _, _, _)

\* st = [visited, component]
dfsComponentLoop(vertex, transposed, st, j) ==
  LET dependencies == IF MapHas(transposed, vertex) THEN MapGet(transposed, vertex) ELSE <<>>
  IN  IF j > Len(dependencies) THEN st
      ELSE LET neighbor == dependencies[j]
               st1 == IF neighbor \notin st.visited
                      THEN dfsComponent(neighbor, transposed, st)
                      ELSE st
           IN  dfsComponentLoop(vertex, transposed, st1, j + 1)

dfsComponent(vertex, transposed, st) ==
  dfsComponentLoop(vertex, transposed,
                   [st EXCEPT !.visited = @ \cup {vertex},
                              !.component = @ \cup {vertex}], 1)

findStronglyConnectedComponents(g) ==
  LET prefixes == MapKeys(g.prefixDependencies)
      RECURSIVE Fill(_)
      Fill(n) ==
        IF n = 0 THEN [visited |-> {}, stack |-> <<>>]
        ELSE LET st == Fill(n - 1)
             IN  IF prefixes[n] \notin st.visited THEN fillOrder(prefixes[n], g, st) ELSE st
      stack == Fill(Len(prefixes)).stack
      transposedGraph == transposeGraph(g)
      \* the while loop, after k pops: acc = [visited, components]
      RECURSIVE Pop(_)
      Pop(k) ==
        IF k = 0 THEN [visited |-> {}, components |-> <<>>]
        ELSE LET acc == Pop(k - 1)
                 vertex == stack[Len(stack) - k + 1]
             IN  IF vertex \notin acc.visited
                 THEN LET c == dfsComponent(vertex, transposedGraph,
                                            [visited |-> acc.visited, component |-> {}])
                      IN  [visited |-> c.visited,
                           components |-> Append(acc.components, c.component)]
                 ELSE acc
  IN  Pop(Len(stack)).components

\* ComponentViolations with graph.modules walked from its last entry
ComponentViolationsBackwards(component, g, ms) ==
  LET RECURSIVE Scan(_)
      Scan(n) ==
        IF n = 0 THEN <<>>
        ELSE LET i == g.modules[n].value
                 modulePrefix == extractModulePrefix(ms[i].name)
                 hits == IF modulePrefix \in component
                         THEN SelectSeq([j \in 1..Len(ms[i].dependencies) |->
                                           [module |-> i, index |-> j]],
                                        LAMBDA r :
                                          LET depPrefix == extractModulePrefix(Dep(ms, r).to)
                                          IN  depPrefix \in component /\ modulePrefix # depPrefix)
                         ELSE <<>>
             IN  hits \o Scan(n - 1)
  IN  Scan(Len(g.modules))

\* the violations one component contributes: the two inner loops of detectViolations
ComponentViolations(component, g, ms) ==
  LET RECURSIVE Scan(_)
      Scan(n) ==
        IF n = 0 THEN <<>>
        ELSE LET i == g.modules[n].value
                 modulePrefix == extractModulePrefix(ms[i].name)
                 hits == IF modulePrefix \in component
                         THEN SelectSeq([j \in 1..Len(ms[i].dependencies) |->
                                           [module |-> i, index |-> j]],
                                        LAMBDA r :
                                          LET depPrefix == extractModulePrefix(Dep(ms, r).to)
                                          IN  depPrefix \in component /\ modulePrefix # depPrefix)
                         ELSE <<>>
             IN  Scan(n - 1) \o hits
  IN  Scan(Len(g.modules))

detectViolations(g, ms) ==
  LET stronglyConnectedComponents == findStronglyConnectedComponents(g)
      RECURSIVE Upto(_)
      Upto(n) ==
        IF n = 0 THEN <<>>
        ELSE Upto(n - 1) \o
             (IF Cardinality(stronglyConnectedComponents[n]) > 1
              THEN ComponentViolations(stronglyConnectedComponents[n], g, ms)
              ELSE <<>>)
  IN  Upto(Len(stronglyConnectedComponents))

(* ---------------------------- orderorder.ts ---------------------------- *)

\* OrderOrder.analyze after the parser has returned allModules
analyze ==
  /\ pc = "parse"
  /\ pc' = "analyzed"
  /\ graph' = buildGraph(modules)
  /\ feedbackArcs' = findFeedbackArcs(graph', modules)
  /\ violations' = detectViolations(graph', modules)
  /\ UNCHANGED <<modules, options, output, exitCode>>

(* -------------------------------- cli.ts ------------------------------- *)

\* readdirSync or statSync throws in walkDirectory: the catch of the action
\* prints the error and exits with 1
walkError ==
  /\ pc = "parse"
  /\ pc' = "failed"
  /\ exitCode' = 1
  /\ UNCHANGED <<modules, graph, feedbackArcs, violations, options, output>>

\* the summary both reports print (jsonOutput.summary, generateReport)
Summary(g, arcs, viols) ==
  [prefixCount |-> Len(g.prefixDependencies),
   violationCount |-> Len(viols),
   feedbackArcCount |-> Len(arcs),
   isAcyclic |-> isAcyclic(g)]

\* process.exit(hasViolations ? 1 : 0); after `return` in the dot branch the
\* process ends on its own, with code 0
ExitCode(opts, arcs, viols) ==
  IF opts.dot THEN 0
  ELSE IF Len(viols) > 0 \/ Len(arcs) > 0 THEN 1 ELSE 0

\* program.action from the report on, for every combination of options
action ==
  /\ pc = "analyzed"
  /\ \E json \in BOOLEAN, dot \in BOOLEAN, out \in BOOLEAN, verbose \in BOOLEAN :
       /\ options' = [json |-> json, dot |-> dot, output |-> out, verbose |-> verbose]
       /\ output' = Summary(graph, feedbackArcs, violations) @@
                    [dot |-> dot, file |-> out]
       /\ exitCode' = ExitCode(options', feedbackArcs, violations)
  /\ pc' = "exited"
  /\ UNCHANGED <<modules, graph, feedbackArcs, violations>>

(* ---------------------------- specifications --------------------------- *)

Init ==
  /\ pc = "parse"
  /\ modules = <<>>
  /\ graph = NoGraph
  /\ feedbackArcs = <<>>
  /\ violations = <<>>
  /\ options = NoOptions
  /\ output = NoOutput
  /\ exitCode = -1

Parsed(ms) == {ms[i].name : i \in 1..Len(ms)}

\* analyze over a tree with one file per logical name
Next ==
  \/ parseFile(DirNames \ Parsed(modules), MaxModules)
  \/ extractDependencies(DirNames, MaxDeps)
  \/ analyze

Spec == Init /\ [][Next]_vars

\* analyze over any sequence of module records
MultiNext ==
  \/ parseFile(DirNames, MultiMaxModules)
  \/ extractDependencies(DirNames, MultiMaxDeps)
  \/ analyze

SpecMulti == Init /\ [][MultiNext]_vars

\* the command-line action, from the walk to the exit code
CliNext ==
  \/ parseFile(RootNames, CliMaxModules)
  \/ extractDependencies(RootNames, CliMaxDeps)
  \/ walkError
  \/ analyze
  \/ action

SpecCli == Init /\ [][CliNext]_vars

\* a tree of four directories, after ui/x.ts and core/y.ts, which import each
\* other, have been parsed
PairInit ==
  /\ pc = "parse"
  /\ modules = << [name |-> <<"ui", "x">>, prefix |-> <<"ui">>,
                   dependencies |-> << [from |-> <<"ui", "x">>, to |-> <<"core", "y">>,
                                        line |-> 1] >>],
                  [name |-> <<"core", "y">>, prefix |-> <<"core">>,
                   dependencies |-> << [from |-> <<"core", "y">>, to |-> <<"ui", "x">>,
                                        line |-> 1] >>] >>
  /\ graph = NoGraph
  /\ feedbackArcs = <<>>
  /\ violations = <<>>
  /\ options = NoOptions
  /\ output = NoOutput
  /\ exitCode = -1

PairNext ==
  \/ parseFile(PairNames \ Parsed(modules), 2 + MoreModules)
  \/ extractDependencies(PairNames, 2 + MoreDeps)
  \/ analyze

SpecPair == PairInit /\ [][PairNext]_vars

(* ------------------------- graph-theoretic terms ----------------------- *)

\* the prefix graph as a set of edges <<from, to>>
EdgeSet(g) == {<<e.from, e.to>> : e \in Range(EdgeSeq(g))}

\* every endpoint of an edge of the prefix graph
Vertices(g) == {e[1] : e \in EdgeSet(g)} \cup {e[2] : e \in EdgeSet(g)}

\* the prefixes of the analysed tree: of every module and of every import target
AllPrefixes(ms) ==
  {extractModulePrefix(ms[i].name) : i \in 1..Len(ms)} \cup
  {extractModulePrefix(Dep(ms, r).from) : r \in Range(AllDeps(ms))} \cup
  {extractModulePrefix(Dep(ms, r).to) : r \in Range(AllDeps(ms))}

\* the vertices reachable from a along one or more edges of E
ReachFrom(E, a) ==
  LET RECURSIVE Grow(_)
      Grow(S) == LET T == S \cup {e[2] : e \in {f \in E : f[1] \in S}}
                 IN  IF T = S THEN S ELSE Grow(T)
  IN  Grow({e[2] : e \in {f \in E : f[1] = a}})

HasNoCycle(E) == \A e \in E : e[1] \notin ReachFrom(E, e[1])

\* a and b lie in one strongly connected component of size two or more
SameProperComponent(E, a, b) == a # b /\ b \in ReachFrom(E, a) /\ a \in ReachFrom(E, b)

ArcEdges(arcs) == {<<arcs[i].from, arcs[i].to>> : i \in 1..Len(arcs)}

\* the dependency objects of the supplied modules with the prefix pair (a, b)
DepsBetween(ms, a, b) ==
  {r \in Range(AllDeps(ms)) :
     /\ extractModulePrefix(Dep(ms, r).from) = a
     /\ extractModulePrefix(Dep(ms, r).to) = b}

(* -------------------------------- claims ------------------------------- *)

\* C1: the arcs returned by findFeedbackArcs form a feedback arc set: the
\* prefix graph of buildGraph without the edges (arc.from -> arc.to) has no
\* directed cycle.
C1_FeedbackArcSet ==
  pc = "analyzed" => HasNoCycle(EdgeSet(graph) \ ArcEdges(feedbackArcs))

\* a cyclic prefix graph that needs, and gets, two arcs
C1_Witness ==
  /\ pc = "analyzed"
  /\ Len(feedbackArcs) = 2
  /\ ~HasNoCycle(EdgeSet(graph) \ {<<feedbackArcs[1].from, feedbackArcs[1].to>>})
  /\ ~HasNoCycle(EdgeSet(graph) \ {<<feedbackArcs[2].from, feedbackArcs[2].to>>})

\* C2: isAcyclic(graph) is true exactly when findFeedbackArcs(graph) is empty.
C2_IsAcyclicAgrees ==
  pc = "analyzed" => (isAcyclic(graph) <=> feedbackArcs = <<>>)

\* a cycle that the short-circuiting search meets below its first root
C2_Witness ==
  /\ pc = "analyzed"
  /\ ~isAcyclic(graph)
  /\ feedbackArcs # <<>>
  /\ feedbackArcs[1].to # graph.prefixDependencies[1].key

\* C3: detectViolations returns a dependency edge of a supplied module if and
\* only if its two prefixes differ and lie in one strongly connected
\* component of size two or more; every such edge is returned.
C3_ViolationsAreComponentEdges ==
  pc = "analyzed" =>
    \A r \in Range(AllDeps(modules)) :
      r \in Range(violations) <=>
        SameProperComponent(EdgeSet(graph),
                            extractModulePrefix(Dep(modules, r).from),
                            extractModulePrefix(Dep(modules, r).to))

\* C4: the components of findStronglyConnectedComponents partition the full
\* prefix set: every prefix of a module or of an import target is in exactly
\* one component.
C4_ComponentsPartitionPrefixes ==
  pc = "analyzed" =>
    LET components == findStronglyConnectedComponents(graph)
    IN  /\ \A p \in AllPrefixes(modules) :
             Cardinality({k \in 1..Len(components) : p \in components[k]}) = 1
        /\ \A k \in 1..Len(components) : components[k] \subseteq AllPrefixes(modules)

\* C5: prefixDependencies has the edge a -> b if and only if some dependency
\* of some supplied module has source prefix a and target prefix b with
\* a # b; no prefix is its own successor, and no successor is listed twice.
C5_PrefixEdges ==
  pc = "analyzed" =>
    /\ EdgeSet(graph) = {<<extractModulePrefix(Dep(modules, r).from),
                           extractModulePrefix(Dep(modules, r).to)>> :
                           r \in {q \in Range(AllDeps(modules)) :
                                    extractModulePrefix(Dep(modules, q).from) #
                                    extractModulePrefix(Dep(modules, q).to)}}
    /\ \A e \in EdgeSet(graph) : e[1] # e[2]
    /\ Len(EdgeSeq(graph)) = Cardinality(EdgeSet(graph))
    /\ Len(graph.prefixDependencies) =
         Cardinality({graph.prefixDependencies[i].key :
                        i \in 1..Len(graph.prefixDependencies)})

\* an import inside one prefix beside two imports that collapse into one edge
C5_Witness ==
  /\ pc = "analyzed"
  /\ \E r \in Range(AllDeps(modules)) :
       extractModulePrefix(Dep(modules, r).from) = extractModulePrefix(Dep(modules, r).to)
  /\ \E a \in Vertices(graph), b \in Vertices(graph) :
       a # b /\ Cardinality(DepsBetween(modules, a, b)) >= 2

\* C6: every feedback arc (a -> b) is an edge of the prefix graph, and its
\* violations are exactly the dependency edges, over all supplied modules,
\* with source prefix a and target prefix b.
C6_ArcViolationsExact ==
  pc = "analyzed" =>
    \A i \in 1..Len(feedbackArcs) :
      LET arc == feedbackArcs[i]
      IN  /\ <<arc.from, arc.to>> \in EdgeSet(graph)
          /\ Range(arc.violations) = DepsBetween(modules, arc.from, arc.to)
          /\ Len(arc.violations) = Cardinality(DepsBetween(modules, arc.from, arc.to))

\* place of module record i in the iteration of graph.modules (0: the record
\* was replaced by a later one of the same name)
MapPlace(g, i) ==
  IF \E n \in 1..Len(g.modules) : g.modules[n].value = i
  THEN CHOOSE n \in 1..Len(g.modules) : g.modules[n].value = i
  ELSE 0

\* r comes before q in module iteration order, then dependency-list order
ModuleOrder(g, r, q) ==
  \/ MapPlace(g, r.module) < MapPlace(g, q.module)
  \/ r.module = q.module /\ r.index < q.index

\* place, in the list findStronglyConnectedComponents returns, of the
\* component holding the source prefix of r
ComponentPlace(g, ms, r) ==
  LET components == findStronglyConnectedComponents(g)
  IN  CHOOSE k \in 1..Len(components) :
        extractModulePrefix(ms[r.module].name) \in components[k]

\* C7 (as stated): the list of detectViolations is in module order of the
\* input sequence, then in dependency-list order, also with two or more
\* components of size two or more.
C7_ModuleOrder ==
  pc = "analyzed" =>
    \A p \in 1..Len(violations), q \in 1..Len(violations) :
      p < q =>
        \/ violations[p].module < violations[q].module
        \/ /\ violations[p].module = violations[q].module
           /\ violations[p].index < violations[q].index

\* C7 (amended): the list of detectViolations is grouped by component, in the
\* order findStronglyConnectedComponents returns the components; inside one
\* component it is in the iteration order of graph.modules, then in
\* dependency-list order.
C7_ComponentThenModuleOrder ==
  pc = "analyzed" =>
    \A p \in 1..Len(violations), q \in 1..Len(violations) :
      p < q =>
        LET cp == ComponentPlace(graph, modules, violations[p])
            cq == ComponentPlace(graph, modules, violations[q])
        IN  \/ cp < cq
            \/ cp = cq /\ ModuleOrder(graph, violations[p], violations[q])

\* two components of two prefixes each, the later module's component first
C7_Witness ==
  /\ pc = "analyzed"
  /\ Cardinality({k \in 1..Len(findStronglyConnectedComponents(graph)) :
                    Cardinality(findStronglyConnectedComponents(graph)[k]) > 1}) = 2
  /\ Len(violations) >= 4
  /\ violations[1].module > violations[Len(violations)].module

\* C8: with any options, a run whose result has a violation or a feedback arc
\* exits with 1, and a run with neither exits with 0.
C8_ExitCode ==
  pc = "exited" =>
    exitCode = IF Len(violations) > 0 \/ Len(feedbackArcs) > 0 THEN 1 ELSE 0

\* C9: the prefix count of the summary is the number of distinct prefixes of
\* the analysed modules, import targets and prefixes without a
\* cross-directory import included.
C9_PrefixCount ==
  pc = "exited" => output.prefixCount = Cardinality(AllPrefixes(modules))

\* C10: a root-level file is a unit of its own: its prefix is its name, no
\* module of another name has that prefix, and an import between the two is
\* an edge of the prefix graph.
C10_RootFileIsOwnUnit ==
  \A i \in 1..Len(modules) :
    Len(modules[i].name) = 1 =>
      /\ extractModulePrefix(modules[i].name) = modules[i].name
      /\ \A j \in 1..Len(modules) :
           modules[j].name # modules[i].name =>
             extractModulePrefix(modules[j].name) # extractModulePrefix(modules[i].name)
      /\ pc = "analyzed" =>
           \A r \in Range(AllDeps(modules)) :
             (Dep(modules, r).from = modules[i].name /\ Dep(modules, r).to # modules[i].name)
               => <<extractModulePrefix(Dep(modules, r).from),
                    extractModulePrefix(Dep(modules, r).to)>> \in EdgeSet(graph)

\* E is one simple directed cycle over two or more vertices
IsSimpleCycle(E) ==
  LET V == {e[1] : e \in E} \cup {e[2] : e \in E}
  IN  /\ Cardinality(V) >= 2
      /\ Cardinality(E) = Cardinality(V)
      /\ \A v \in V : Cardinality({e \in E : e[1] = v}) = 1
      /\ \A v \in V : ReachFrom(E, v) = V

\* the dependency objects of the supplied modules that cross two prefixes
CrossPrefixDeps(ms) ==
  {r \in Range(AllDeps(ms)) :
     extractModulePrefix(Dep(ms, r).from) # extractModulePrefix(Dep(ms, r).to)}

\* C11: when the prefix graph is one simple directed cycle over n >= 2
\* prefixes, then in every order of the modules findFeedbackArcs returns
\* exactly one arc, the n prefixes form one component, and detectViolations
\* returns exactly the cross-prefix dependency edges of the modules.
C11_SimpleCycle ==
  (pc = "analyzed" /\ IsSimpleCycle(EdgeSet(graph))) =>
    /\ Len(feedbackArcs) = 1
    /\ findStronglyConnectedComponents(graph) = <<Vertices(graph)>>
    /\ Range(violations) = CrossPrefixDeps(modules)
    /\ Len(violations) = Cardinality(CrossPrefixDeps(modules))

\* the dependency occurrences whose two distinct prefixes lie in one component
\* of size two or more
ComponentDeps(g, ms) ==
  {r \in Range(AllDeps(ms)) :
     SameProperComponent(EdgeSet(g),
                         extractModulePrefix(Dep(ms, r).from),
                         extractModulePrefix(Dep(ms, r).to))}

\* C12: no deduplication and no duplication: detectViolations returns as many
\* records as the supplied modules have dependency occurrences whose two
\* distinct prefixes lie in one component of size two or more, and no
\* occurrence is reported twice.
C12_OneRecordPerOccurrence ==
  pc = "analyzed" =>
    /\ Len(violations) = Cardinality(ComponentDeps(graph, modules))
    /\ Cardinality(Range(violations)) = Len(violations)

\* C13: each set returned by findStronglyConnectedComponents is a maximal set
\* of mutually reachable prefixes: two prefixes of the graph are in one
\* returned component if and only if each is reachable from the other.
C13_ComponentsAreMutualReachability ==
  pc = "analyzed" =>
    LET components == findStronglyConnectedComponents(graph)
        E == EdgeSet(graph)
    IN  /\ \A a \in AllPrefixes(modules), b \in AllPrefixes(modules) :
             a # b =>
               ((\E k \in 1..Len(components) : a \in components[k] /\ b \in components[k])
                  <=> SameProperComponent(E, a, b))
        /\ \A k \in 1..Len(components) : components[k] # {}

\* a component of two prefixes beside a prefix that reaches it, or is reached
\* from it, without being in it
C13_Witness ==
  /\ pc = "analyzed"
  /\ \E k \in 1..Len(findStronglyConnectedComponents(graph)) :
       Cardinality(findStronglyConnectedComponents(graph)[k]) = 2
  /\ Len(findStronglyConnectedComponents(graph)) = 2
  /\ Cardinality(Vertices(graph)) = 3

\* C14: every dependency edge in the violations of a feedback arc is also in
\* the list of detectViolations for the same graph, and the two endpoints of
\* every feedback arc lie in one component of size two or more.
C14_ArcViolationsAreViolations ==
  pc = "analyzed" =>
    \A i \in 1..Len(feedbackArcs) :
      /\ Range(feedbackArcs[i].violations) \subseteq Range(violations)
      /\ SameProperComponent(EdgeSet(graph), feedbackArcs[i].from, feedbackArcs[i].to)
      /\ \E k \in 1..Len(findStronglyConnectedComponents(graph)) :
           {feedbackArcs[i].from, feedbackArcs[i].to}
             \subseteq findStronglyConnectedComponents(graph)[k]

\* an arc with two attributed imports, in a graph that also has an import
\* into the arc's target from outside the cycle
C14_Witness ==
  /\ pc = "analyzed"
  /\ \E i \in 1..Len(feedbackArcs) :
       /\ Len(feedbackArcs[i].violations) = 2
       /\ \E r \in Range(AllDeps(modules)) :
            /\ extractModulePrefix(Dep(modules, r).to) = feedbackArcs[i].to
            /\ extractModulePrefix(Dep(modules, r).from)
                 \notin {feedbackArcs[i].from, feedbackArcs[i].to}
            /\ r \notin Range(violations)

\* C15: every feedback arc returned by analyze carries at least one
\* attributed violation, also when two module records share a logical name.
C15_ArcHasViolation ==
  pc = "analyzed" =>
    \A i \in 1..Len(feedbackArcs) : Len(feedbackArcs[i].violations) >= 1

\* C16: in every result of analyze the feedbackArcs list is empty if and only
\* if the violations list is empty, and both are empty exactly when isAcyclic
\* is true.
C16_SummariesAgree ==
  pc = "analyzed" =>
    /\ (feedbackArcs = <<>>) <=> (violations = <<>>)
    /\ isAcyclic(graph) <=> (feedbackArcs = <<>> /\ violations = <<>>)

\* C17: findFeedbackArcs reports no prefix edge twice and calls dfsForCycles
\* on every prefix of the graph exactly once; it returns, on cyclic graphs
\* too, with the recursion stack empty and with at most as many arcs as the
\* prefix graph has edges.
C17_SearchIsBounded ==
  pc = "analyzed" =>
    LET run == findFeedbackArcsRun(graph, modules)
    IN  /\ run.feedbackArcs = feedbackArcs
        /\ Cardinality(ArcEdges(feedbackArcs)) = Len(feedbackArcs)
        /\ Cardinality(Range(run.calls)) = Len(run.calls)
        /\ Range(run.calls) = Vertices(graph)
        /\ run.visited = Vertices(graph)
        /\ run.recursionStack = {}
        /\ Len(feedbackArcs) <= Cardinality(EdgeSet(graph))

\* a cyclic graph in which the search meets a prefix again that it has
\* already left, and one that it is still in
C17_Witness ==
  /\ pc = "analyzed"
  /\ Len(feedbackArcs) >= 1
  /\ Len(findFeedbackArcsRun(graph, modules).calls) = 3
  /\ Cardinality(EdgeSet(graph)) = 4
  /\ Cardinality(EdgeSet(graph)) - Len(feedbackArcs) > 2

====
